---------------------------- MODULE Spec2Model ----------------------------
(***************************************************************************)
(* A model of ProxyFrameManager (src/proxy-frame-manager.js): the registry *)
(* of frames, the set of loaded frames, the deferred send queues, the      *)
(* fallback timers and the inbound message handler.                        *)
(*                                                                         *)
(* JavaScript strings are sequences of one-character strings, so that      *)
(* String.prototype.indexOf is computed and not assumed.  The values       *)
(* undefined and null, and an absent JSON key, are one-element sequences   *)
(* holding a marker that is not a character.                               *)
(*                                                                         *)
(* Environment assumptions (outside src/): every iframe element carries a  *)
(* data-proxy attribute as the README requires; peer names are ordinary    *)
(* names, not names of Object.prototype properties; Porthole delivers      *)
(* postMessage asynchronously, so no handler runs inside another one.      *)
(***************************************************************************)
EXTENDS Naturals, Integers, Sequences, FiniteSets, TLC

\* ------------------------------------------------------------- bounds
MaxSends == 2
MaxListens == 2

\* ------------------------------------------------------------- values
UNDEFINED == <<"#undefined">>
NULL == <<"#null">>
ABSENT == <<"#absent">>

PARENT == <<"p", "a", "r", "e", "n", "t">>
CHILD == <<"c", "h", "i", "l", "d">>
SCHEME == <<":", "/", "/">>
URL_A == <<"a", ":", "/", "/", "h", "/", "p">>
URL_B == <<"b", ":", "/", "/", "h", "/", "p">>
URL_C == <<"c", ":", "/", "/", "h", "/", "p">>
NOSCHEME == <<":", "/", "/", "h">>
ORIGIN_A == <<"a", ":", "/", "/", "h">>
ORIGIN_C == <<"c", ":", "/", "/", "h">>
GREET == <<"g", "r", "e", "e", "t">>
PING == <<"p", "i", "n", "g">>
ALICE == <<"A">>

\* Every string used as a key of frames, loadedFrames or deferred.
Keys == {PARENT, CHILD, NOSCHEME, URL_A, URL_B}
\* The iframe names the page may declare, and each one's data-proxy.
IframeNames == {CHILD}
DataProxy(name) == URL_C

\* String.prototype.indexOf: the 0-based position of the first occurrence
\* of sub in s, -1 when there is none.
IndexOf(s, sub) ==
    LET hits == {i \in 0..(Len(s) - Len(sub)) :
                    SubSeq(s, i + 1, i + Len(sub)) = sub}
    IN  IF hits = {} THEN -1
        ELSE CHOOSE i \in hits : \A j \in hits : i <= j

\* Array.prototype.slice.call(arguments, from)
Slice(arguments, from) == SubSeq(arguments, from + 1, Len(arguments))

\* arguments[i] (0-based) of a call: undefined past the end.
Arg(arguments, i) ==
    IF i + 1 <= Len(arguments) THEN arguments[i + 1] ELSE UNDEFINED

\* JSON.stringify({method: method, args: args}): a key whose value is
\* undefined is left out, an undefined array element becomes null.
Stringify(method, args) ==
    [t |-> "object",
     method |-> IF method = UNDEFINED THEN ABSENT ELSE method,
     args |-> [i \in 1..Len(args) |->
                  IF args[i] = UNDEFINED THEN NULL ELSE args[i]]]

\* ------------------------------------------------------------- state
VARIABLES
    frames,        \* frames[name]: the record of a frame, or NoFrame
    loadedFrames,  \* loadedFrames[name]: TRUE once the frame counts as loaded
    deferred,      \* deferred[name]: the calls queued for the frame
    timers,        \* timers[name]: pending setTimeout(deferredSend(name))
    sent,          \* sent[name]: what postMessage was given on the channel
    opened,        \* opened[name]: message callbacks registered for name
    dom,           \* the iframe names present in the document
    loadBound,     \* the iframes the load handler was bound to
    calls,         \* history: the send calls of the page, in order
    nListens,      \* history: how many listenTo calls were made
    last           \* history: the operation that ran last, and its outcome

vars == <<frames, loadedFrames, deferred, timers, sent, opened, dom,
          loadBound, calls, nListens, last>>

NoChannel == [proxyUrl |-> UNDEFINED, target |-> UNDEFINED]
NoFrame == [defined |-> FALSE, url |-> UNDEFINED, channel |-> NoChannel,
            listeners |-> <<>>]

\* The program's own state, as one value the functions below transform;
\* err is the exception the running handler has thrown, if any.
St == [frames |-> frames, loadedFrames |-> loadedFrames,
       deferred |-> deferred, timers |-> timers, sent |-> sent,
       opened |-> opened, err |-> "none"]

\* F applied to the value of v, with v worked out once: the order of
\* evaluation of the code, where a statement runs on the state the one
\* before it has left.
Strict(v, F(_)) == CHOOSE r \in {F(x) : x \in {v}} : TRUE

\* $('iframe[name=' + name + ']').length
ElemExists(name) == name \in dom

\* getFrame's condition with the test of the element left out.
CanCreateAlways(name, proxyUrl) == TRUE

\* getFrame's condition as one that never holds: no record is ever made.
CanCreateNever(name, proxyUrl) == FALSE

\* getFrame's condition for creating a record.
CanCreate(name, proxyUrl) ==
    ElemExists(name) \/ (name = PARENT /\ proxyUrl # UNDEFINED)

\* getFrame that lets an explicit proxyUrl win over the record it has: the
\* record is made anew with that url.
getFrameRenew(S, name, proxyUrl) ==
    IF S.frames[name].defined /\ proxyUrl = UNDEFINED THEN S
    ELSE
        LET T == [S EXCEPT !.timers[name] = @ + 1]
        IN  IF CanCreate(name, proxyUrl)
            THEN LET url == IF proxyUrl # UNDEFINED THEN proxyUrl
                            ELSE DataProxy(name)
                 IN  [T EXCEPT !.opened[name] = @ + 1,
                               !.frames[name] =
                                   [defined |-> TRUE, url |-> url,
                                    channel |-> [proxyUrl |-> url,
                                                 target |-> UNDEFINED],
                                    listeners |-> <<>>]]
            ELSE T

\* getFrame(name, proxyUrl): the state after it; the frame it returns is
\* frames[name] of that state.
getFrame(S, name, proxyUrl) ==
    IF S.frames[name].defined THEN S
    ELSE
        LET T == [S EXCEPT !.timers[name] = @ + 1]
        IN  IF CanCreate(name, proxyUrl)
            THEN LET url == IF proxyUrl # UNDEFINED THEN proxyUrl
                            ELSE DataProxy(name)
                     windowProxy ==
                         IF proxyUrl # UNDEFINED
                         THEN [proxyUrl |-> url, target |-> UNDEFINED]
                         ELSE [proxyUrl |-> url, target |-> name]
                 IN  [T EXCEPT !.opened[name] = @ + 1,
                               !.frames[name] =
                                   [defined |-> TRUE, url |-> url,
                                    channel |-> windowProxy,
                                    listeners |-> <<>>]]
            ELSE T

\* The test of send with the loaded flag ignored: every frame counts as
\* loaded.
IsLoadedAlways(S, frameName) == TRUE

\* The test send makes before queueing.
IsLoaded(S, frameName) == S.loadedFrames[frameName]

\* frame.channel.postMessage(data): a TypeError when frame is undefined.
transmit(S, frameName, id, data) ==
    IF S.frames[frameName].defined
    THEN [S EXCEPT !.sent[frameName] = Append(@, [id |-> id, data |-> data])]
    ELSE [S EXCEPT !.err = "TypeError"]

\* send with the queued call put at the head of the list (unshift where
\* the code has push).
sendUnshift(S, arguments, id) ==
    LET frameName == Arg(arguments, 0)
        method == Arg(arguments, 1)
        args == Slice(arguments, 2)
    IN  IF ~IsLoaded(S, frameName)
        THEN [S EXCEPT !.deferred[frameName] =
                 <<[method |-> method, args |-> args, id |-> id]>> \o @]
        ELSE Strict(getFrame(S, frameName, UNDEFINED),
                    LAMBDA T :
                        IF T.frames[frameName].defined
                        THEN transmit(T, frameName, id,
                                      Stringify(method, args))
                        ELSE T)

\* send that resolves the frame first and tests the loaded flag after.
sendResolveFirst(S, arguments, id) ==
    LET frameName == Arg(arguments, 0)
        method == Arg(arguments, 1)
        args == Slice(arguments, 2)
    IN  Strict(getFrame(S, frameName, UNDEFINED),
               LAMBDA T :
                   IF ~IsLoaded(T, frameName)
                   THEN [T EXCEPT !.deferred[frameName] =
                            Append(@, [method |-> method, args |-> args,
                                       id |-> id])]
                   ELSE IF T.frames[frameName].defined
                   THEN transmit(T, frameName, id, Stringify(method, args))
                   ELSE T)

\* send(frameName, method, ...args), given as its arguments array.  id is
\* the position of the page's call in calls, carried along as history.
send(S, arguments, id) ==
    LET frameName == Arg(arguments, 0)
        method == Arg(arguments, 1)
        args == Slice(arguments, 2)
    IN  IF ~IsLoaded(S, frameName)
        THEN [S EXCEPT !.deferred[frameName] =
                 Append(@, [method |-> method, args |-> args, id |-> id])]
        ELSE Strict(getFrame(S, frameName, UNDEFINED),
                    LAMBDA T :
                        IF T.frames[frameName].defined
                        THEN transmit(T, frameName, id,
                                      Stringify(method, args))
                        ELSE T)

\* deferredSend's loop: entry i of the queue and the ones after it.  The
\* two unshift calls change the queued args array itself; send.apply then
\* runs send on that array.  An exception ends the loop.
RECURSIVE replay(_, _, _)
replay(S, frameName, i) ==
    IF i > Len(S.deferred[frameName]) \/ S.err # "none" THEN S
    ELSE LET entry == S.deferred[frameName][i]
             arguments == <<frameName, entry.method>> \o entry.args
             T == [S EXCEPT !.deferred[frameName][i].args = arguments]
         IN  Strict(send(T, arguments, entry.id),
                    LAMBDA U : replay(U, frameName, i + 1))

\* deferredSend without the test of the loaded flag: every firing replays.
deferredSendUnguarded(S, frameName) ==
    replay([S EXCEPT !.loadedFrames[frameName] = TRUE], frameName, 1)

\* deferredSend with the loop run from the newest entry to the oldest.
RECURSIVE replayDown(_, _, _)
replayDown(S, frameName, i) ==
    IF i < 1 \/ S.err # "none" THEN S
    ELSE LET entry == S.deferred[frameName][i]
             arguments == <<frameName, entry.method>> \o entry.args
             T == [S EXCEPT !.deferred[frameName][i].args = arguments]
         IN  Strict(send(T, arguments, entry.id),
                    LAMBDA U : replayDown(U, frameName, i - 1))

deferredSendNewestFirst(S, frameName) ==
    IF ~S.loadedFrames[frameName]
    THEN replayDown([S EXCEPT !.loadedFrames[frameName] = TRUE], frameName,
                    Len(S.deferred[frameName]))
    ELSE S

\* deferredSend that marks the frame loaded and leaves the queue alone.
deferredSendMarkOnly(S, frameName) ==
    [S EXCEPT !.loadedFrames[frameName] = TRUE]

\* deferredSend as a switch: a firing for a loaded frame unloads it.
deferredSendSwitch(S, frameName) ==
    IF ~S.loadedFrames[frameName]
    THEN replay([S EXCEPT !.loadedFrames[frameName] = TRUE], frameName, 1)
    ELSE [S EXCEPT !.loadedFrames[frameName] = FALSE]

\* deferredSend that tries again: a firing replays the queue as long as
\* nothing has gone out to the frame.
deferredSendRetry(S, frameName) ==
    IF ~S.loadedFrames[frameName] \/ S.sent[frameName] = <<>>
    THEN replay([S EXCEPT !.loadedFrames[frameName] = TRUE], frameName, 1)
    ELSE S

\* deferredSend(frameName)
deferredSend(S, frameName) ==
    IF ~S.loadedFrames[frameName]
    THEN replay([S EXCEPT !.loadedFrames[frameName] = TRUE], frameName, 1)
    ELSE S

\* listenTo without the test for '://': every reference is a frame name.
listenToByName(S, frameName, object) ==
    Strict(getFrame(S, frameName, UNDEFINED),
           LAMBDA T :
               IF T.frames[frameName].defined
               THEN [T EXCEPT !.frames[frameName].listeners =
                        Append(@, object)]
               ELSE T)

\* listenTo that keeps one listener for a frame: the new one replaces the
\* list.
listenToReplace(S, frameName, object) ==
    LET name == IF IndexOf(frameName, SCHEME) > 0 THEN PARENT ELSE frameName
    IN  Strict(IF IndexOf(frameName, SCHEME) > 0
               THEN getFrame(S, PARENT, frameName)
               ELSE getFrame(S, frameName, UNDEFINED),
               LAMBDA T :
                   IF T.frames[name].defined
                   THEN [T EXCEPT !.frames[name].listeners = <<object>>]
                   ELSE T)

\* listenTo that keeps the listener of a frame it cannot resolve, in a
\* record without a channel.
listenToKeep(S, frameName, object) ==
    LET name == IF IndexOf(frameName, SCHEME) > 0 THEN PARENT ELSE frameName
    IN  Strict(IF IndexOf(frameName, SCHEME) > 0
               THEN getFrame(S, PARENT, frameName)
               ELSE getFrame(S, frameName, UNDEFINED),
               LAMBDA T :
                   IF T.frames[name].defined
                   THEN [T EXCEPT !.frames[name].listeners =
                            Append(@, object)]
                   ELSE [T EXCEPT !.frames[name] =
                            [defined |-> TRUE, url |-> UNDEFINED,
                             channel |-> NoChannel,
                             listeners |-> <<object>>]])

\* The name listenTo resolves: 'parent' for a reference with '://' past
\* its first character, the reference itself otherwise.
ListenName(frameName) ==
    IF IndexOf(frameName, SCHEME) > 0 THEN PARENT ELSE frameName

\* listenTo(frameName, object)
listenTo(S, frameName, object) ==
    LET name == ListenName(frameName)
    IN  Strict(IF IndexOf(frameName, SCHEME) > 0
               THEN getFrame(S, PARENT, frameName)
               ELSE getFrame(S, frameName, UNDEFINED),
               LAMBDA T :
                   IF T.frames[name].defined
                   THEN [T EXCEPT !.frames[name].listeners =
                            Append(@, object)]
                   ELSE T)

\* ------------------------------------------------------------- inbound
\* A listener object: the methods it defines, and those of them that
\* throw when called.  NoObject is listenTo's object left out (undefined).
NoObject == [obj |-> FALSE, id |-> "undefined", has |-> {}, throws |-> {}]
L1 == [obj |-> TRUE, id |-> "L1", has |-> {GREET, PING}, throws |-> {}]
L2 == [obj |-> TRUE, id |-> "L2", has |-> {GREET}, throws |-> {GREET}]

\* messageEvent.data: an empty string, a text that is no JSON, the JSON
\* text null, or the JSON text of an object.
EMPTY == [t |-> "empty", method |-> ABSENT, args |-> ABSENT]
GARBAGE == [t |-> "garbage", method |-> ABSENT, args |-> ABSENT]
JSONNULL == [t |-> "null", method |-> ABSENT, args |-> ABSENT]
NOMETHOD == [t |-> "object", method |-> ABSENT, args |-> <<>>]

\* JSON.parse(text): it throws a SyntaxError on a text that is no JSON.
ParseThrows(text) == text.t = "garbage"
Parse(text) ==
    [null |-> text.t = "null",
     method |-> IF text.method = ABSENT THEN UNDEFINED ELSE text.method,
     args |-> IF text.args = ABSENT THEN UNDEFINED ELSE text.args]

\* details && details.method
HasMethod(details) ==
    ~details.null /\ details.method # UNDEFINED /\ Len(details.method) > 0

\* l && l[details.method]
Handles(l, method) == l.obj /\ method \in l.has

\* The listener loop of messageHandler from entry i on: the calls made so
\* far, and the error that ended the loop if one did.
RECURSIVE dispatch(_, _, _, _, _)
dispatch(listeners, i, method, args, invoked) ==
    IF i > Len(listeners) THEN [invoked |-> invoked, err |-> "none"]
    ELSE LET l == listeners[i]
         IN  IF Handles(l, method)
             THEN LET now == Append(invoked,
                                    [index |-> i, id |-> l.id, args |-> args])
                  IN  IF method \in l.throws
                      THEN [invoked |-> now, err |-> "ListenerError"]
                      ELSE dispatch(listeners, i + 1, method, args, now)
             ELSE dispatch(listeners, i + 1, method, args, invoked)

\* messageHandler with the origin as a gate: a message from an origin the
\* frame's url does not begin with is logged and handed to no listener.
Silent(S) == [S |-> S, invoked |-> <<>>, logged |-> TRUE]
messageHandlerGated(S, frameName, data, origin) ==
    IF data.t = "empty" \/ data.t = "null" \/ data.method = ABSENT
    THEN [S |-> S, invoked |-> <<>>, logged |-> FALSE]
    ELSE IF data.t = "garbage"
    THEN [S |-> [S EXCEPT !.err = "SyntaxError"], invoked |-> <<>>,
          logged |-> FALSE]
    ELSE LET frame == S.frames[frameName]
             r == dispatch(frame.listeners, 1, data.method, data.args, <<>>)
         IN  IF IndexOf(frame.url, origin) # 0 THEN Silent(S)
             ELSE [S |-> [S EXCEPT !.err = r.err], invoked |-> r.invoked,
                   logged |-> FALSE]

\* messageHandler(frameName)(messageEvent): the state after it, the error
\* it raised, the listener calls it made and whether it logged an invalid
\* source domain.
Quiet(S) == [S |-> S, invoked |-> <<>>, logged |-> FALSE]
messageHandler(S, frameName, data, origin) ==
    IF data.t = "empty" THEN Quiet(S)
    ELSE IF ParseThrows(data)
    THEN Quiet([S EXCEPT !.err = "SyntaxError"])
    ELSE LET details == Parse(data)
         IN  IF ~HasMethod(details) THEN Quiet(S)
             ELSE LET T == getFrame(S, frameName, UNDEFINED)
                      frame == T.frames[frameName]
                      r == dispatch(frame.listeners, 1, details.method,
                                    IF details.args = UNDEFINED THEN <<>>
                                    ELSE details.args, <<>>)
                  IN  IF ~frame.defined
                      THEN Quiet([T EXCEPT !.err = "TypeError"])
                      ELSE [S |-> [T EXCEPT !.err = r.err],
                            invoked |-> r.invoked,
                            logged |-> IndexOf(frame.url, origin) # 0]

\* ------------------------------------------------------------- inputs
\* Whether getFrame(name) would return a record.
Resolvable(name) == frames[name].defined \/ ElemExists(name)

\* What the last operation found when it started.
Pre(name) == [loaded |-> loadedFrames[name], resolvable |-> Resolvable(name)]

NoOutcome == [err |-> "none", invoked |-> <<>>, logged |-> FALSE]

Init ==
    /\ frames = [k \in Keys |-> NoFrame]
    /\ loadedFrames = [k \in Keys |-> k = PARENT]
    /\ deferred = [k \in Keys |-> <<>>]
    /\ timers = [k \in Keys |-> 0]
    /\ sent = [k \in Keys |-> <<>>]
    /\ opened = [k \in Keys |-> 0]
    /\ dom \in SUBSET IframeNames
    /\ loadBound = dom
    /\ calls = <<>>
    /\ nListens = 0
    /\ last = [op |-> "init", name |-> UNDEFINED, input |-> <<>>,
               pre |-> Pre(PARENT), out |-> NoOutcome]

Commit(S) ==
    /\ frames' = S.frames
    /\ loadedFrames' = S.loadedFrames
    /\ deferred' = S.deferred
    /\ timers' = S.timers
    /\ sent' = S.sent
    /\ opened' = S.opened

\* What the page sees of an operation that ended in state S.
Outcome(S, invoked, logged) ==
    [err |-> S.err, invoked |-> invoked, logged |-> logged]

\* The page calls ProxyFrameManager.send(frameName, method, ...args).
Send(peers, sendCalls) ==
    \E frameName \in peers, call \in sendCalls :
        LET arguments == <<frameName>> \o call
        IN  /\ Len(calls) < MaxSends
            /\ calls' = Append(calls, arguments)
            /\ \E S \in {send(St, arguments, Len(calls) + 1)} :
                   /\ Commit(S)
                   /\ last' = [op |-> "send", name |-> frameName,
                               input |-> <<>>, pre |-> Pre(frameName),
                               out |-> Outcome(S, <<>>, FALSE)]
            /\ UNCHANGED <<dom, loadBound, nListens>>

\* The page calls ProxyFrameManager.listenTo(frameName, object).
ListenTo(refs, objects) ==
    \E frameName \in refs, object \in objects :
        /\ nListens < MaxListens
        /\ nListens' = nListens + 1
        /\ \E S \in {listenTo(St, frameName, object)} :
               /\ Commit(S)
               /\ last' = [op |-> "listenTo", name |-> ListenName(frameName),
                           input |-> <<frameName, object>>,
                           pre |-> Pre(ListenName(frameName)),
                           out |-> Outcome(S, <<>>, FALSE)]
        /\ UNCHANGED <<dom, loadBound, calls>>

\* An iframe the load handler is bound to fires its load event.
Load ==
    \E name \in loadBound :
        /\ \E S \in {deferredSend(St, name)} :
               /\ Commit(S)
               /\ last' = [op |-> "load", name |-> name, input |-> <<>>,
                           pre |-> Pre(name), out |-> Outcome(S, <<>>, FALSE)]
        /\ UNCHANGED <<dom, loadBound, calls, nListens>>

\* The fallback timer getFrame set for name fires.
TimerFireOf(name) ==
    /\ timers[name] > 0
    /\ \E S \in {deferredSend([St EXCEPT !.timers[name] = @ - 1], name)} :
           /\ Commit(S)
           /\ last' = [op |-> "timer", name |-> name, input |-> <<>>,
                       pre |-> Pre(name), out |-> Outcome(S, <<>>, FALSE)]
    /\ UNCHANGED <<dom, loadBound, calls, nListens>>

TimerFire == \E name \in Keys : TimerFireOf(name)

\* Porthole hands a message to the callback registered for name.
Message(datas, origins) ==
    \E name \in Keys, data \in datas, origin \in origins :
        /\ opened[name] > 0
        /\ \E r \in {messageHandler(St, name, data, origin)} :
               /\ Commit(r.S)
               /\ last' = [op |-> "message", name |-> name,
                           input |-> <<data, origin>>, pre |-> Pre(name),
                           out |-> Outcome(r.S, r.invoked, r.logged)]
        /\ UNCHANGED <<dom, loadBound, calls, nListens>>

\* The page adds an iframe after the load handler was bound.
AddIframe ==
    \E name \in IframeNames \ dom :
        /\ dom' = dom \cup {name}
        /\ last' = [op |-> "addIframe", name |-> name, input |-> <<>>,
                    pre |-> Pre(name), out |-> NoOutcome]
        /\ UNCHANGED <<frames, loadedFrames, deferred, timers, sent, opened,
                       loadBound, calls, nListens>>

\* Outbound traffic: sends to the parent and to an iframe that may or may
\* not be in the document, before and after they are listened to.
SendPeers == {PARENT, CHILD}
SendCalls == {<<GREET, ALICE>>, <<PING, UNDEFINED>>}
Next ==
    \/ Send(SendPeers, SendCalls)
    \/ ListenTo({CHILD, URL_A}, {NoObject})
    \/ Load
    \/ TimerFire
    \/ Message({Stringify(PING, <<>>)}, {ORIGIN_A})
    \/ AddIframe

Spec == Init /\ [][Next]_vars

\* The same page under the one scheduling guarantee the browser gives: a
\* timer that was set fires.  The load event of an iframe may never come.
NextFair ==
    \/ Send({CHILD}, SendCalls)
    \/ ListenTo({CHILD}, {NoObject})
    \/ Load
    \/ TimerFire
    \/ Message({Stringify(PING, <<>>)}, {ORIGIN_A})
    \/ AddIframe

SpecFair ==
    /\ Init
    /\ [][NextFair]_vars
    /\ WF_vars(TimerFire)

\* Every shape of listenTo reference, and sends to the parent.
ListenRefs == {CHILD, URL_A, URL_B, NOSCHEME}
NextListen ==
    \/ Send({PARENT}, {<<GREET, ALICE>>})
    \/ ListenTo(ListenRefs, {NoObject, L1})
    \/ Load
    \/ TimerFire
    \/ Message({Stringify(PING, <<>>)}, {ORIGIN_A})
    \/ AddIframe

SpecListen == Init /\ [][NextListen]_vars

\* Inbound traffic: every kind of listener and of message.
MessageData == {EMPTY, GARBAGE, JSONNULL, NOMETHOD,
                Stringify(GREET, <<ALICE>>), Stringify(PING, <<>>)}
NextIn ==
    \/ Send({CHILD}, {<<PING>>})
    \/ ListenTo({CHILD, URL_A}, {NoObject, L1, L2})
    \/ Load
    \/ Message(MessageData, {ORIGIN_A, ORIGIN_C})
    \/ AddIframe

SpecIn == Init /\ [][NextIn]_vars

\* Frames that are not loaded at the start: an iframe that may come late,
\* and a name no iframe ever has.
LatePeers == {CHILD, NOSCHEME}
NextLate ==
    \/ Send(LatePeers, SendCalls)
    \/ ListenTo(LatePeers, {L1})
    \/ Load
    \/ TimerFire
    \/ Message({Stringify(GREET, <<ALICE>>)}, {ORIGIN_C})
    \/ AddIframe

SpecLate == Init /\ [][NextLate]_vars

\* ------------------------------------------------------------- claims
\* The envelope send gives postMessage for call number id of the page.
EnvelopeOf(call, id) ==
    [id |-> id, data |-> Stringify(Arg(call, 1), Slice(call, 2))]
Envelope(id) == EnvelopeOf(calls[id], id)

\* The page's calls send(P, ...) so far, oldest first, as envelopes.
RECURSIVE EnvelopesFrom(_, _)
EnvelopesFrom(P, id) ==
    IF id > Len(calls) THEN <<>>
    ELSE (IF Arg(calls[id], 0) = P THEN <<Envelope(id)>> ELSE <<>>)
         \o EnvelopesFrom(P, id + 1)

\* What a step has added to sent[P].
Transmitted(P) == SubSeq(sent'[P], Len(sent[P]) + 1, Len(sent'[P]))

\* C1: when a frame P that getFrame can resolve becomes loaded (load event
\* or fallback timer), the flush gives postMessage exactly the calls
\* send(P, ...) made until then, each with its own method and arguments,
\* in the order they were made.
C1_FlushInSubmissionOrder ==
    [][\A P \in Keys :
          (~loadedFrames[P] /\ loadedFrames'[P] /\ Resolvable(P))
              => Transmitted(P) = EnvelopesFrom(P, 1)]_vars

\* A flush of two different queued calls to a resolvable frame.
C1_Witness ==
    /\ last.op \in {"load", "timer"}
    /\ ~last.pre.loaded
    /\ last.pre.resolvable
    /\ Len(sent[last.name]) = 2
    /\ sent[last.name][1].data # sent[last.name][2].data

\* C2: whatever the interleaving, what was given to postMessage on P's
\* channel is, in order, a subsequence of the page's calls send(P, ...):
\* the call numbers grow strictly and each envelope is that of its call.
C2_PerPeerFifo ==
    \A P \in Keys :
        /\ \A i \in 1..Len(sent[P]) :
              /\ sent[P][i].id \in 1..Len(calls)
              /\ Arg(calls[sent[P][i].id], 0) = P
              /\ sent[P][i] = Envelope(sent[P][i].id)
        /\ \A i, j \in 1..Len(sent[P]) :
              i < j => sent[P][i].id < sent[P][j].id

\* A send made once the frame is loaded goes out behind a call that was
\* queued for the frame earlier.
C2_Witness ==
    /\ last.op = "send"
    /\ last.pre.loaded
    /\ deferred[last.name] # <<>>
    /\ Len(sent[last.name]) >= 2
    /\ sent[last.name][1].id = deferred[last.name][1].id
    /\ sent[last.name][Len(sent[last.name])].id = Len(calls)

\* C3: a step gives postMessage something on P's channel only if P is
\* loaded after the step: P was loaded before it (as 'parent' always is),
\* or the step is the one that marks P loaded.
C3_NoTransmissionBeforeLoaded ==
    [][\A P \in Keys : Transmitted(P) # <<>> => loadedFrames'[P]]_vars

\* A call queued for an iframe goes out in the step that marks it loaded.
C3_Witness ==
    /\ last.op \in {"load", "timer"}
    /\ last.name = CHILD
    /\ ~last.pre.loaded
    /\ loadedFrames[CHILD]
    /\ sent[CHILD] # <<>>

\* A load event or a fallback timer for a frame that is already loaded
\* changes nothing of the program's state; the timer that fired is gone.
C4_LaterFiringIsNoOp ==
    [][(last'.op \in {"load", "timer"} /\ loadedFrames[last'.name])
          => /\ UNCHANGED <<frames, loadedFrames, deferred, sent, opened>>
             /\ \A k \in Keys \ {last'.name} : timers'[k] = timers[k]
             /\ timers'[last'.name] =
                    timers[last'.name]
                        - (IF last'.op = "timer" THEN 1 ELSE 0)]_vars
\* No call of the page is given to postMessage twice.
C4_AtMostOnce ==
    \A P \in Keys : \A i, j \in 1..Len(sent[P]) :
        sent[P][i].id = sent[P][j].id => i = j

\* C4: deferredSend is idempotent: only the first load event or fallback
\* timer of a frame flushes its queue; a later one changes no state and
\* transmits nothing, so each queued call goes out at most once.
C4_MarkReadyIdempotent == C4_LaterFiringIsNoOp /\ []C4_AtMostOnce

\* A second firing for an iframe whose queue was flushed by the first.
C4_Witness ==
    /\ last.op \in {"load", "timer"}
    /\ last.name = CHILD
    /\ last.pre.loaded
    /\ deferred[CHILD] # <<>>
    /\ sent[CHILD] # <<>>

\* A queued entry after deferredSend's loop has run send on it: the two
\* unshift calls have put the frame name and the method at the head of
\* its args array.
Replayed(P, entry) ==
    /\ Len(entry.args) >= 2
    /\ entry.args[1] = P
    /\ entry.args[2] = entry.method

\* P has calls waiting in its queue.
Waiting(P) == deferred[P] # <<>> /\ ~loadedFrames[P]

\* P is loaded and every call of its queue was replayed through send.
Flushed(P) ==
    /\ loadedFrames[P]
    /\ \A i \in 1..Len(deferred[P]) : Replayed(P, deferred[P][i])

\* C5 as claimed: a frame with calls in its queue is flushed in the end,
\* load event or not, given that timers that are set fire.
C5_QueuedEventuallyFlushed ==
    \A P \in Keys : Waiting(P) ~> Flushed(P)

\* What the code does guarantee: a frame with calls in its queue and a
\* fallback timer pending is flushed in the end.  getFrame sets the timer,
\* and a send to a frame that is not loaded never calls getFrame.
C5_QueuedWithTimerEventuallyFlushed ==
    \A P \in Keys : (Waiting(P) /\ timers[P] > 0) ~> Flushed(P)

\* The fallback timer, not a load event, flushes a queue.
C5_Witness ==
    /\ last.op = "timer"
    /\ ~last.pre.loaded
    /\ deferred[last.name] # <<>>
    /\ Flushed(last.name)
    /\ last.name \notin loadBound

\* An inbound text that decodes to an object with a method.
WellFormed(data) == data.t = "object" /\ data.method # ABSENT

\* The places in the listener list, from i on, of the listeners that
\* define method.
RECURSIVE Definers(_, _, _)
Definers(listeners, i, method) ==
    IF i > Len(listeners) THEN <<>>
    ELSE (IF listeners[i].obj /\ method \in listeners[i].has
          THEN <<i>> ELSE <<>>) \o Definers(listeners, i + 1, method)

\* The places of the listeners the last message was handed to, in order.
InvokedPlaces == [k \in 1..Len(last.out.invoked) |-> last.out.invoked[k].index]

\* C6: a well-formed message {method m, args a} on P's channel calls every
\* listener of P that defines m once with a, in the order of registration,
\* and calls no listener that does not define m.
C6_FanOutToEveryDefiner ==
    (last.op = "message" /\ WellFormed(last.input[1]))
        => /\ InvokedPlaces =
                  Definers(frames[last.name].listeners, 1,
                           last.input[1].method)
           /\ \A k \in 1..Len(last.out.invoked) :
                  last.out.invoked[k].args = last.input[1].args

\* C7: a malformed message (no JSON, or JSON without a method) calls no
\* listener, raises no error out of the handler and leaves the frames, the
\* loaded flags and the queues as they were.
C7_MalformedIsDropped ==
    [][(last'.op = "message" /\ ~WellFormed(last'.input[1]))
          => /\ last'.out.invoked = <<>>
             /\ last'.out.err = "none"
             /\ UNCHANGED <<frames, loadedFrames, deferred>>]_vars

\* C8: when a listener that defines the method throws, the handler raises
\* nothing and every later listener that defines the method is called.
C8_ListenerFailureIsolated ==
    (/\ last.op = "message"
     /\ WellFormed(last.input[1])
     /\ \E i \in 1..Len(frames[last.name].listeners) :
           /\ frames[last.name].listeners[i].obj
           /\ last.input[1].method \in frames[last.name].listeners[i].throws)
        => /\ last.out.err = "none"
           /\ \A i \in 1..Len(frames[last.name].listeners) :
                  (/\ frames[last.name].listeners[i].obj
                   /\ last.input[1].method
                          \in frames[last.name].listeners[i].has)
                      => \E k \in 1..Len(last.out.invoked) :
                             last.out.invoked[k].index = i

\* C9: send to a name getFrame cannot resolve (no record, no iframe
\* element), loaded or not, gives nothing to postMessage on any channel,
\* raises no error and creates no record.
C9_SendToUnresolvableIsSilent ==
    [][(last'.op = "send" /\ ~Resolvable(last'.name))
          => /\ UNCHANGED <<sent, frames, opened>>
             /\ last'.out.err = "none"]_vars

\* A send to a frame that counts as loaded and has no element.
C9_Witness ==
    /\ last.op = "send"
    /\ last.name = CHILD
    /\ last.pre.loaded
    /\ ~last.pre.resolvable
    /\ calls # <<>>

\* C10 as claimed: listenTo with a reference that holds '://' leaves a
\* record under 'parent' with that reference as its url and none under
\* the reference; from then on send('parent', ...) goes out at once.
C10_UrlReferenceNamesParent ==
    /\ (last.op = "listenTo" /\ IndexOf(last.input[1], SCHEME) >= 0)
          => /\ frames[PARENT].defined
             /\ frames[PARENT].url = last.input[1]
             /\ ~frames[last.input[1]].defined
    /\ (last.op = "send" /\ last.name = PARENT /\ frames[PARENT].defined)
          => /\ sent[PARENT] # <<>>
             /\ sent[PARENT][Len(sent[PARENT])] = Envelope(Len(calls))
             /\ deferred[PARENT] = <<>>

\* C10 as amended: listenTo with a reference that holds '://' past its
\* first character resolves 'parent': it creates the record with that
\* reference as url when 'parent' has none, keeps the url and the channel
\* of the record 'parent' has, and touches no other record; a send to
\* 'parent' made while it has a record goes out at once and is not queued.
C10_UrlPastFirstCharNamesParent ==
    /\ [][(last'.op = "listenTo" /\ IndexOf(last'.input[1], SCHEME) > 0)
             => /\ last'.name = PARENT
                /\ frames'[PARENT].defined
                /\ IF frames[PARENT].defined
                   THEN /\ frames'[PARENT].url = frames[PARENT].url
                        /\ frames'[PARENT].channel = frames[PARENT].channel
                   ELSE /\ frames'[PARENT].url = last'.input[1]
                        /\ frames'[PARENT].channel.proxyUrl = last'.input[1]
                /\ \A k \in Keys \ {PARENT} : frames'[k] = frames[k]]_vars
    /\ [][(last'.op = "send" /\ last'.name = PARENT /\ frames[PARENT].defined)
             => /\ Transmitted(PARENT) =
                       <<EnvelopeOf(calls'[Len(calls')], Len(calls'))>>
                /\ deferred' = deferred]_vars

\* After listenTo(URL_B) then listenTo(URL_A) the record of 'parent' still
\* has URL_B, and a send to 'parent' has gone out on it.
C10_Witness ==
    /\ last.op = "send"
    /\ last.name = PARENT
    /\ nListens = 2
    /\ frames[PARENT].defined
    /\ frames[PARENT].url = URL_B
    /\ Len(sent[PARENT]) = 1

\* s is a prefix of t.
IsPrefix(s, t) == Len(s) <= Len(t) /\ SubSeq(t, 1, Len(s)) = s

\* C11: the listener list of a frame only grows at its tail: each value of
\* it is a prefix of the next, and a listenTo that finds or creates the
\* record of the frame puts its object behind the ones registered before.
C11_ListenersAdditive ==
    [][/\ \A k \in Keys :
             IsPrefix(frames[k].listeners, frames'[k].listeners)
       /\ (/\ last'.op = "listenTo"
           /\ last'.input[2].obj
           /\ frames'[last'.name].defined)
             => frames'[last'.name].listeners =
                    Append(frames[last'.name].listeners, last'.input[2])]_vars

\* Two listener objects registered on one frame, the second behind the
\* first.
C11_Witness ==
    /\ last.op = "listenTo"
    /\ \E k \in Keys : frames[k].listeners = <<L1, L2>>

\* The origins a message may claim to come from.
Origins == {ORIGIN_A, ORIGIN_C}

ParentLoaded == loadedFrames[PARENT]

\* No step takes the loaded flag of a frame away.
LoadedStaysLoaded ==
    [][\A k \in Keys : loadedFrames[k] => loadedFrames'[k]]_vars

\* C13: 'parent' is loaded in every reachable state, and a frame that is
\* loaded stays loaded through every send, listenTo, load event, fallback
\* timer and inbound message.
C13_LoadedMonotonic == []ParentLoaded /\ LoadedStaysLoaded

\* A fallback timer fires for 'parent' after a load event or a timer has
\* marked an iframe loaded.
C13_Witness ==
    /\ last.op = "timer"
    /\ last.name = PARENT
    /\ last.pre.loaded
    /\ loadedFrames[CHILD]

\* C14: a name has one record at most: a record that exists stays, with
\* its url and its channel, whatever is resolved later, and the channel
\* and its message callback were made once.
C14_OneRecordPerName ==
    /\ [](\A k \in Keys : opened[k] = (IF frames[k].defined THEN 1 ELSE 0))
    /\ [][\A k \in Keys :
             frames[k].defined
                 => /\ frames'[k].defined
                    /\ frames'[k].url = frames[k].url
                    /\ frames'[k].channel = frames[k].channel
                    /\ opened'[k] = opened[k]]_vars

\* listenTo with a second url finds the record 'parent' got from the
\* first.
C14_Witness ==
    /\ last.op = "listenTo"
    /\ last.name = PARENT
    /\ last.input[1] # frames[PARENT].url
    /\ IndexOf(last.input[1], SCHEME) > 0
    /\ Len(frames[PARENT].listeners) = 2

\* C15: a frame that is loaded has no call left in its queue: the flush
\* empties the queue it has replayed.
C15_LoadedQueueIsEmpty ==
    \A P \in Keys : loadedFrames[P] => deferred[P] = <<>>

\* C16: a listenTo call without a listener object leaves the listener list
\* of the frame it resolves as it was, contents and length.
C16_NoObjectNoAppend ==
    [][(last'.op = "listenTo" /\ ~last'.input[2].obj)
          => frames'[last'.name].listeners = frames[last'.name].listeners
      ]_vars

\* The url a listenTo step hands to getFrame, undefined for a send.
ExplicitUrl(l) ==
    IF l.op = "listenTo" /\ IndexOf(l.input[1], SCHEME) > 0
    THEN l.input[1] ELSE UNDEFINED

\* C17: a send to a loaded frame or a listenTo whose name has no record, no
\* iframe element and no explicit url stores no record and raises nothing;
\* the same call made when the element (or the url) is there creates the
\* record and opens its channel on the element's data-proxy (or the url).
C17_FailedResolveRecoverable ==
    [][LET n == last'.name
           url == ExplicitUrl(last')
           configured == n \in dom \/ (n = PARENT /\ url # UNDEFINED)
       IN  (/\ last'.op \in {"send", "listenTo"}
            /\ last'.op = "send" => loadedFrames[n]
            /\ ~frames[n].defined)
               => IF ~configured
                  THEN /\ UNCHANGED <<frames, opened, sent>>
                       /\ last'.out.err = "none"
                  ELSE /\ frames'[n].defined
                       /\ opened'[n] = 1
                       /\ frames'[n].url =
                              (IF url # UNDEFINED THEN url ELSE DataProxy(n))
                       /\ frames'[n].channel.proxyUrl = frames'[n].url
                       /\ last'.out.err = "none"]_vars

\* An iframe added after a listenTo for it had failed and its timer had
\* marked it loaded gets its record from a send, which goes out.
C17_Witness ==
    /\ last.op = "send"
    /\ last.name = CHILD
    /\ CHILD \notin loadBound
    /\ frames[CHILD].defined
    /\ frames[CHILD].listeners = <<>>
    /\ opened[CHILD] = 1
    /\ Len(sent[CHILD]) = 1

\* C18: a send of the page queues a call exactly when the frame is not
\* loaded at the call; it then puts one entry, the method and the
\* arguments of the call, at the tail of that frame's queue and does no
\* more: no record, no timer, nothing given to postMessage, the other
\* queues as they were.  A send to a loaded frame changes no queue.
C18_SendQueuesIffNotLoaded ==
    [][last'.op = "send"
          => LET n == last'.name
                 call == calls'[Len(calls')]
                 entry == [method |-> Arg(call, 1), args |-> Slice(call, 2),
                           id |-> Len(calls')]
             IN  IF ~loadedFrames[n]
                 THEN /\ deferred' = [deferred EXCEPT ![n] = Append(@, entry)]
                      /\ UNCHANGED <<frames, loadedFrames, timers, sent,
                                     opened>>
                 ELSE deferred' = deferred]_vars

\* The page's second call is queued for an iframe while another frame
\* holds the first in a queue of its own.
C18_Witness ==
    /\ last.op = "send"
    /\ last.name = CHILD
    /\ ~last.pre.loaded
    /\ Len(deferred[CHILD]) = 1
    /\ Len(deferred[NOSCHEME]) = 1
    /\ deferred[CHILD][1].id = 2

\* The call numbers a step has given to postMessage on P's channel.
TransmittedIds(P) == {Transmitted(P)[i].id : i \in 1..Len(Transmitted(P))}

\* The call numbers in P's queue.
QueuedIds(P) == {deferred[P][i].id : i \in 1..Len(deferred[P])}

\* C19: when a load event or a timer marks loaded a frame P that getFrame
\* cannot resolve, the step gives postMessage nothing, makes no record and
\* raises nothing: every queued call is dropped.  And no step after a
\* frame was marked loaded transmits a call of its queue, so a dropped
\* call never goes out, whatever P becomes and whatever is sent later.
C19_DropIsPermanent ==
    /\ [][\A P \in Keys :
             (~loadedFrames[P] /\ loadedFrames'[P] /\ ~Resolvable(P))
                 => /\ sent' = sent
                    /\ ~frames'[P].defined
                    /\ deferred[P] # <<>> => Flushed(P)'
                    /\ last'.out.err = "none"]_vars
    /\ [][\A P \in Keys :
             loadedFrames[P] => TransmittedIds(P) \cap QueuedIds(P) = {}]_vars

\* The first call was queued and dropped by the flush; the iframe came
\* later and the second call went out to it.
C19_Witness ==
    /\ last.op = "send"
    /\ last.name = CHILD
    /\ Len(deferred[CHILD]) = 1
    /\ deferred[CHILD][1].id = 1
    /\ Replayed(CHILD, deferred[CHILD][1])
    /\ sent[CHILD] = <<Envelope(2)>>

\* C20: listenTo(name, L) for a name without record, iframe element or
\* explicit url makes no record and keeps L nowhere: frames, queues and
\* flags stay as they were.  The record a later call makes starts with no
\* listener but the one that call registers, and a message is handed only
\* to listeners that are in the list of its frame.
C20_FailedListenRegistersNothing ==
    /\ [][LET n == last'.name
              configured == n \in dom
                                \/ (n = PARENT
                                        /\ ExplicitUrl(last') # UNDEFINED)
          IN  (last'.op = "listenTo" /\ ~frames[n].defined /\ ~configured)
                  => /\ UNCHANGED <<frames, opened, deferred, loadedFrames,
                                    sent>>
                     /\ last'.out.err = "none"]_vars
    /\ [][\A k \in Keys :
             (~frames[k].defined /\ frames'[k].defined)
                 => frames'[k].listeners =
                        (IF last'.op = "listenTo" THEN <<last'.input[2]>>
                         ELSE <<>>)]_vars
    /\ [](last.op = "message"
             => \A i \in 1..Len(last.out.invoked) :
                   LET c == last.out.invoked[i]
                   IN  /\ c.index \in 1..Len(frames[last.name].listeners)
                       /\ frames[last.name].listeners[c.index].id = c.id)

\* listenTo(child, L1) failed and its timer marked child loaded; the
\* iframe came later, a send made its record, and a greet message on its
\* channel reaches no listener.
C20_Witness ==
    /\ last.op = "message"
    /\ last.name = CHILD
    /\ WellFormed(last.input[1])
    /\ CHILD \notin loadBound
    /\ loadedFrames[CHILD]
    /\ frames[CHILD].listeners = <<>>
    /\ last.out.invoked = <<>>
    /\ nListens >= 1
=============================================================================
